---- MODULE Spec2Model ----
(***************************************************************************)
(* Enhanced Bot Protection API (src/api/index.ts): the classifier          *)
(* analyzeAISignatures, the threat ledger threatDatabase with              *)
(* updateThreatIntelligence / getThreatIntelligence, the challenge         *)
(* generator, and the request handler with its four endpoints.             *)
(*                                                                         *)
(* JavaScript numbers are IEEE-754 doubles.  Every number the program      *)
(* computes is a sum or difference of the literals 0.1 .. 1.0, so it is    *)
(* an integer multiple of 2^-56; a number is modelled exactly as a sign    *)
(* and a magnitude counted in units of 2^-56, the magnitude held in three  *)
(* limbs of 24 bits, and every arithmetic result is rounded to 53          *)
(* significant bits, ties to even, as the hardware does.                   *)
(*                                                                         *)
(* JavaScript strings are TLA+ strings; includes, toLowerCase, trim,       *)
(* split and the regular expressions are computed character by character.  *)
(***************************************************************************)
EXTENDS Integers, Sequences, FiniteSets, Bags, TLC

-----------------------------------------------------------------------------
(* Strings *)

Upper == "ABCDEFGHIJKLMNOPQRSTUVWXYZ"
Lower == "abcdefghijklmnopqrstuvwxyz"

CharAt(s, i) == SubSeq(s, i, i)

LowerChar(c) ==
  IF \E i \in 1..26 : CharAt(Upper, i) = c
    THEN CharAt(Lower, CHOOSE i \in 1..26 : CharAt(Upper, i) = c)
    ELSE c

RECURSIVE toLowerCase(_)
toLowerCase(s) ==
  IF Len(s) = 0 THEN ""
  ELSE LowerChar(CharAt(s, 1)) \o toLowerCase(SubSeq(s, 2, Len(s)))

IsSpace(c) == c \in {" ", "\t", "\n", "\r"}

RECURSIVE trimStart(_)
trimStart(s) ==
  IF Len(s) > 0 /\ IsSpace(CharAt(s, 1)) THEN trimStart(SubSeq(s, 2, Len(s)))
  ELSE s

RECURSIVE trimEnd(_)
trimEnd(s) ==
  IF Len(s) > 0 /\ IsSpace(CharAt(s, Len(s))) THEN trimEnd(SubSeq(s, 1, Len(s) - 1))
  ELSE s

trim(s) == trimEnd(trimStart(s))

\* s.includes(sub), at position i or later
IncludesFrom(s, sub, i) ==
  \E k \in i..(Len(s) - Len(sub) + 1) : SubSeq(s, k, k + Len(sub) - 1) = sub

includes(s, sub) == IncludesFrom(s, sub, 1)

\* /a.*b/i tested against s: a occurs, and b occurs after the end of that a
TestThen(s, a, b) ==
  LET t == toLowerCase(s) IN
  \E k \in 1..(Len(t) - Len(a) + 1) :
     /\ SubSeq(t, k, k + Len(a) - 1) = a
     /\ IncludesFrom(t, b, k + Len(a))

\* /a|b|c/i tested against s
TestAny(s, alts) ==
  LET t == toLowerCase(s) IN \E a \in alts : includes(t, a)

\* s.split(",")[0]
SplitFirst(s) ==
  IF includes(s, ",")
    THEN SubSeq(s, 1, (CHOOSE k \in 1..Len(s) :
                         /\ CharAt(s, k) = ","
                         /\ \A j \in 1..(k - 1) : CharAt(s, j) # ",") - 1)
    ELSE s

-----------------------------------------------------------------------------
(* Numbers: IEEE-754 doubles, magnitude in units of 2^-56 *)

Base == 2^24

Carry(x) ==
  LET l  == x[3] % Base
      c1 == x[3] \div Base
      m  == (x[2] + c1) % Base
      c2 == (x[2] + c1) \div Base
  IN  <<x[1] + c2, m, l>>

RECURSIVE BitLen(_)
BitLen(n) == IF n = 0 THEN 0 ELSE 1 + BitLen(n \div 2)

Bits(x) ==
  IF x[1] > 0 THEN 48 + BitLen(x[1])
  ELSE IF x[2] > 0 THEN 24 + BitLen(x[2])
  ELSE BitLen(x[3])

\* round a magnitude to 53 significant bits, ties to even
RoundD(x) ==
  LET s == Bits(x) - 53 IN
  IF s <= 0 THEN x
  ELSE LET p  == 2^s
           r  == x[3] % p
           odd == (x[3] \div p) % 2 = 1
           up == (2 * r > p) \/ (2 * r = p /\ odd)
       IN  Carry(<<x[1], x[2], (x[3] - r) + (IF up THEN p ELSE 0)>>)

MagLess(a, b) ==
  \/ a[1] < b[1]
  \/ a[1] = b[1] /\ a[2] < b[2]
  \/ a[1] = b[1] /\ a[2] = b[2] /\ a[3] < b[3]

Num(sign, mag) == [sign |-> sign, mag |-> mag]

Zero == Num(1, <<0, 0, 0>>)

\* the double literals of the source
Lit0_1 == Num(1, <<25, 10066329, 10066330>>)
Lit0_2 == Num(1, <<51, 3355443, 3355444>>)
Lit0_3 == Num(1, <<76, 13421772, 13421772>>)
Lit0_4 == Num(1, <<102, 6710886, 6710888>>)
Lit0_5 == Num(1, <<128, 0, 0>>)
Lit0_6 == Num(1, <<153, 10066329, 10066328>>)
Lit0_7 == Num(1, <<179, 3355443, 3355440>>)
Lit0_8 == Num(1, <<204, 13421772, 13421776>>)
Lit0_9 == Num(1, <<230, 6710886, 6710888>>)
Lit1_0 == Num(1, <<256, 0, 0>>)

\* a < b
Less(a, b) ==
  IF a.sign = 1 /\ b.sign = 1 THEN MagLess(a.mag, b.mag)
  ELSE IF a.sign = -1 /\ b.sign = -1 THEN MagLess(b.mag, a.mag)
  ELSE a.sign = -1 /\ (a.mag # Zero.mag \/ b.mag # Zero.mag)

\* a > b
Greater(a, b) == Less(b, a)

\* a + b for operands that are not negative (the only sums the program forms)
Add(a, b) ==
  Num(1, RoundD(Carry(<<a.mag[1] + b.mag[1], a.mag[2] + b.mag[2], a.mag[3] + b.mag[3]>>)))

\* a - b for operands that are not negative
Sub(a, b) ==
  IF MagLess(a.mag, b.mag)
    THEN Num(-1, RoundD(Carry(<<b.mag[1] - a.mag[1], b.mag[2] - a.mag[2], b.mag[3] - a.mag[3]>>)))
    ELSE Num(1, RoundD(Carry(<<a.mag[1] - b.mag[1], a.mag[2] - b.mag[2], a.mag[3] - b.mag[3]>>)))

\* k * a for a small count k
Times(k, a) ==
  Num(1, RoundD(Carry(<<k * a.mag[1], k * a.mag[2], k * a.mag[3]>>)))

\* Math.min and Math.max
MathMin(a, b) == IF Less(b, a) THEN b ELSE a
MathMax(a, b) == IF Less(a, b) THEN b ELSE a

-----------------------------------------------------------------------------
(* Headers: a map from the (lower-case) names of the headers a request     *)
(* carries to their values.                                                *)

\* headers.get(name) is truthy: the header is present and not empty
HasHeader(headers, name) == name \in DOMAIN headers /\ headers[name] # ""

\* headers.get(name) || ""
HeaderOrEmpty(headers, name) == IF name \in DOMAIN headers THEN headers[name] ELSE ""

-----------------------------------------------------------------------------
(* EnhancedBotProtection: the signature catalog and the classifier *)

aiModels ==
  << "gpt", "chatgpt", "openai", "claude", "anthropic", "bard", "gemini",
     "llama", "alpaca", "vicuna", "palm", "lamda", "bert", "transformer",
     "neural", "ai-agent", "assistant", "copilot", "codex" >>

suspiciousHeaders ==
  << "x-openai", "x-anthropic", "x-ai", "x-bot", "x-automated",
     "x-scraper", "x-crawler", "x-agent", "x-research" >>

\* each pattern: the alternatives of its regular expression (<<a>> is the
\* literal a, <<a, b>> is a.*b), its weight and its type
patterns ==
  << [alts |-> {<<"python", "requests">>}, weight |-> Lit0_6, type |-> "automation"],
     [alts |-> {<<"selenium">>, <<"puppeteer">>, <<"playwright">>},
                                             weight |-> Lit0_8, type |-> "automation"],
     [alts |-> {<<"api", "client">>},        weight |-> Lit0_5, type |-> "api-client"],
     [alts |-> {<<"research">>, <<"academic">>, <<"paper">>},
                                             weight |-> Lit0_4, type |-> "research"],
     [alts |-> {<<"data", "collection">>, <<"scraping">>},
                                             weight |-> Lit0_7, type |-> "scraping"],
     [alts |-> {<<"monitoring">>, <<"testing">>, <<"checking">>},
                                             weight |-> Lit0_3, type |-> "monitoring"] >>

standardHeaders == << "accept", "accept-language", "accept-encoding" >>

\* pattern.test(userAgent)
PatternTest(p, userAgent) ==
  \E alt \in p.alts :
     IF Len(alt) = 1 THEN TestAny(userAgent, {alt[1]})
     ELSE TestThen(userAgent, alt[1], alt[2])

\* array.join(", ")
RECURSIVE Join(_)
Join(seq) ==
  IF Len(seq) = 0 THEN ""
  ELSE IF Len(seq) = 1 THEN seq[1]
  ELSE seq[1] \o ", " \o Join(Tail(seq))

\* [...new Set(array)]: the first occurrence of each element, in order
RECURSIVE Dedupe(_)
Dedupe(seq) ==
  IF Len(seq) = 0 THEN << >>
  ELSE LET init == SubSeq(seq, 1, Len(seq) - 1)
           last == seq[Len(seq)]
       IN  IF \E i \in 1..Len(init) : init[i] = last
             THEN Dedupe(init)
             ELSE Append(Dedupe(init), last)

\* the aiModels.forEach loop, from model number i on
RECURSIVE ModelLoop(_, _, _)
ModelLoop(acc, userAgentLower, i) ==
  IF i > Len(aiModels) THEN acc
  ELSE LET model == aiModels[i] IN
       ModelLoop(
         IF includes(userAgentLower, model)
           THEN [confidence |-> Add(acc.confidence, Lit0_8),
                 aiTypes    |-> Append(acc.aiTypes, model),
                 reasoning  |-> Append(acc.reasoning, "Contains AI model identifier: " \o model)]
           ELSE acc,
         userAgentLower, i + 1)

\* the suspiciousHeaders.forEach loop
RECURSIVE HeaderLoop(_, _, _)
HeaderLoop(acc, headers, i) ==
  IF i > Len(suspiciousHeaders) THEN acc
  ELSE LET header == suspiciousHeaders[i] IN
       HeaderLoop(
         IF HasHeader(headers, header)
           THEN [acc EXCEPT !.confidence = Add(acc.confidence, Lit0_7),
                            !.reasoning  = Append(acc.reasoning, "Suspicious header detected: " \o header)]
           ELSE acc,
         headers, i + 1)

\* the patterns.forEach loop
RECURSIVE PatternLoop(_, _, _)
PatternLoop(acc, userAgent, i) ==
  IF i > Len(patterns) THEN acc
  ELSE LET p == patterns[i] IN
       PatternLoop(
         IF PatternTest(p, userAgent)
           THEN [confidence |-> Add(acc.confidence, p.weight),
                 aiTypes    |-> Append(acc.aiTypes, p.type),
                 reasoning  |-> Append(acc.reasoning, "Matched " \o p.type \o " pattern")]
           ELSE acc,
         userAgent, i + 1)

\* standardHeaders.filter(h => !headers.get(h))
MissingHeaders(headers) ==
  SelectSeq(standardHeaders, LAMBDA h : ~HasHeader(headers, h))

MissingStep(acc, headers) ==
  LET missingHeaders == MissingHeaders(headers) IN
  IF Len(missingHeaders) > 0
    THEN [acc EXCEPT !.confidence = Add(acc.confidence, Times(Len(missingHeaders), Lit0_2)),
                     !.reasoning  = Append(acc.reasoning,
                                           "Missing standard headers: " \o Join(missingHeaders))]
    ELSE acc

AcceptStep(acc, headers) ==
  LET acceptHeader == HeaderOrEmpty(headers, "accept") IN
  IF ~includes(acceptHeader, "text/html")
    THEN [acc EXCEPT !.confidence = Add(acc.confidence, Lit0_4),
                     !.reasoning  = Append(acc.reasoning, "Does not accept HTML content")]
    ELSE acc

\* a variant with the threshold at confidence >= 0.5
IsAIThreshold_AtLeast(confidence) == ~Less(confidence, Lit0_5)

\* confidence > 0.5
IsAIThreshold(confidence) == Greater(confidence, Lit0_5)

\* Math.min(confidence, 1.0)
ReportedConfidence(confidence) == MathMin(confidence, Lit1_0)

analyzeAISignatures(userAgent, headers) ==
  LET a0 == [confidence |-> Zero, aiTypes |-> << >>, reasoning |-> << >>]
      a1 == ModelLoop(a0, toLowerCase(userAgent), 1)
      a2 == HeaderLoop(a1, headers, 1)
      a3 == PatternLoop(a2, userAgent, 1)
      a4 == MissingStep(a3, headers)
      a5 == AcceptStep(a4, headers)
  IN  [isAI       |-> IsAIThreshold(a5.confidence),
       confidence |-> ReportedConfidence(a5.confidence),
       aiType     |-> Dedupe(a5.aiTypes),
       reasoning  |-> a5.reasoning]

-----------------------------------------------------------------------------
(* EnhancedBotProtection: the threat ledger *)

\* the ledger: threatDatabase, a Map from ip to ThreatIntelligence, held as a
\* function whose domain is the set of keys of the Map
\* pending: the handler invocations suspended at "await request.json()",
\*   a bag of the ip each one computed before it suspended
\* response: the Response the invocation that ran last has returned, until
\*   the runtime has sent it; NoResponse otherwise
\* served: the route that invocation took, the ip it computed and the body
\*   it read
\* recorded: per ip, the number of updateThreatIntelligence calls made for it
\* serial: the ledger of a single owner that applies the ledger adjustment of
\*   each invocation in one piece, in the order the invocations complete
\* run: per ip, the shape of its history while that is "n failed
\*   verifications" or "n failed verifications, then one successful one"
\* probe: the outcome of recording two events in both orders
VARIABLES threatDatabase, pending, response, served, recorded, serial, run, probe

vars == <<threatDatabase, pending, response, served, recorded, serial, run, probe>>

\* Date.now() and new Date(): the clock is not modelled, every reading of it
\* gives the same time
DateNow == 1

\* knownThreats in initializeThreatIntelligence
knownThreats ==
  << [ip |-> "0.0.0.0", riskScore |-> Lit1_0, threats |-> <<"known-bot-network">>] >>

\* the Map after initializeThreatIntelligence, run at time t
initializeThreatIntelligence(t) ==
  [ip \in {knownThreats[i].ip : i \in 1..Len(knownThreats)} |->
     LET threat == knownThreats[CHOOSE i \in 1..Len(knownThreats) : knownThreats[i].ip = ip]
     IN  [ip |-> threat.ip, riskScore |-> threat.riskScore,
          threats |-> threat.threats, lastSeen |-> t]]

\* this.threatDatabase.set(ip, record)
MapSet(db, ip, record) ==
  [k \in DOMAIN db \cup {ip} |-> IF k = ip THEN record ELSE db[k]]

\* a variant that forgets the lookup and always starts from a new record
ExistingOrNew_Fresh(db, ip) ==
  [ip |-> ip, riskScore |-> Zero, threats |-> << >>, lastSeen |-> 0]

\* this.threatDatabase.get(ip) || { ip, riskScore: 0, threats: [], lastSeen: 0 }
ExistingOrNew(db, ip) ==
  IF ip \in DOMAIN db THEN db[ip]
  ELSE [ip |-> ip, riskScore |-> Zero, threats |-> << >>, lastSeen |-> 0]

\* a variant without the Math.min
updateThreatIntelligence_NoClamp(db, ip, threat, severity, t) ==
  LET existing == ExistingOrNew(db, ip) IN
  MapSet(db, ip,
         [ip        |-> existing.ip,
          riskScore |-> Add(existing.riskScore, severity),
          threats   |-> Append(existing.threats, threat),
          lastSeen  |-> t])

\* a variant that overwrites the score with the severity instead of adding
updateThreatIntelligence_Overwrite(db, ip, threat, severity, t) ==
  LET existing == ExistingOrNew(db, ip) IN
  MapSet(db, ip,
         [ip        |-> existing.ip,
          riskScore |-> MathMin(severity, Lit1_0),
          threats   |-> Append(existing.threats, threat),
          lastSeen  |-> t])

\* the Map after updateThreatIntelligence(ip, threat, severity) at time t
updateThreatIntelligence(db, ip, threat, severity, t) ==
  LET existing == ExistingOrNew(db, ip) IN
  MapSet(db, ip,
         [ip        |-> existing.ip,
          riskScore |-> MathMin(Add(existing.riskScore, severity), Lit1_0),
          threats   |-> Append(existing.threats, threat),
          lastSeen  |-> t])

\* getThreatIntelligence(ip) is not null
HasThreat(db, ip) == ip \in DOMAIN db

\* a variant that creates the record it does not find
ReduceThreat_Creates(db, ip) ==
  LET existing == ExistingOrNew(db, ip) IN
  MapSet(db, ip,
         [existing EXCEPT !.riskScore = MathMax(Zero, Sub(existing.riskScore, Lit0_2))])

\* a variant that logs the successful verification as an event
ReduceThreat_AppendsEvent(db, ip) ==
  IF ip \in DOMAIN db
    THEN [db EXCEPT ![ip].riskScore = MathMax(Zero, Sub(db[ip].riskScore, Lit0_2)),
                    ![ip].threats = Append(db[ip].threats, "verified")]
    ELSE db

\* the success branch of /verify-challenge: the record of ip, when there is
\* one, gets riskScore Math.max(0, riskScore - 0.2)
ReduceThreat(db, ip) ==
  IF HasThreat(db, ip)
    THEN [db EXCEPT ![ip].riskScore = MathMax(Zero, Sub(db[ip].riskScore, Lit0_2))]
    ELSE db

-----------------------------------------------------------------------------
(* EnhancedBotProtection: the challenge generator *)

challengeTypes == << "logic", "pattern", "math", "sequence", "riddle" >>

logicProblems ==
  << [question |-> "If all roses are flowers and some flowers fade quickly, can we conclude that some roses fade quickly?",
      options  |-> <<"Yes", "No", "Cannot be determined">>,
      answer   |-> "Cannot be determined"],
     [question |-> "A bat and a ball cost $1.10 in total. The bat costs $1.00 more than the ball. How much does the ball cost?",
      options  |-> <<"$0.10", "$0.05", "$0.15">>,
      answer   |-> "$0.05"] >>

sequencePatterns ==
  << [sequence |-> <<1, 1, 2, 3, 5, 8>>, next |-> 13, rule |-> "Fibonacci"],
     [sequence |-> <<2, 6, 12, 20, 30>>, next |-> 42, rule |-> "n(n+1)"],
     [sequence |-> <<1, 4, 9, 16, 25>>,  next |-> 36, rule |-> "Perfect squares"] >>

riddles ==
  << [question |-> "I am not alive, but I grow; I don't have lungs, but I need air; I don't have a mouth, but water kills me. What am I?",
      answer   |-> "fire"],
     [question |-> "The more you take, the more you leave behind. What am I?",
      answer   |-> "footsteps"] >>

\* the number of instances the switch chooses among for a type
InstanceCount(type) ==
  CASE type = "logic"   -> Len(logicProblems)
    [] type = "pattern" -> Len(sequencePatterns)
    [] type = "riddle"  -> Len(riddles)
    [] OTHER            -> 1

\* sequence.join(", ") for a sequence of numbers
RECURSIVE JoinNumbers(_)
JoinNumbers(seq) ==
  IF Len(seq) = 0 THEN ""
  ELSE IF Len(seq) = 1 THEN ToString(seq[1])
  ELSE ToString(seq[1]) \o ", " \o JoinNumbers(Tail(seq))

\* generateAdvancedChallenge, with the two indices Math.random() selects
generateAdvancedChallenge(typeIndex, instanceIndex) ==
  LET type == challengeTypes[typeIndex] IN
  CASE type = "logic" ->
         LET logic == logicProblems[instanceIndex] IN
         [type |-> "logic", challenge |-> logic, solution |-> logic.answer]
    [] type = "pattern" ->
         LET pattern == sequencePatterns[instanceIndex] IN
         [type |-> "pattern",
          challenge |-> [question |-> "What comes next in this sequence: "
                                        \o JoinNumbers(pattern.sequence) \o ", ?",
                         sequence |-> pattern.sequence,
                         rule     |-> pattern.rule],
          solution |-> ToString(pattern.next)]
    [] type = "riddle" ->
         LET riddle == riddles[instanceIndex] IN
         [type |-> "riddle", challenge |-> riddle, solution |-> toLowerCase(riddle.answer)]
    [] OTHER ->
         [type |-> "math",
          challenge |-> [question |-> "What is 7 x 8?", hint |-> "Think multiplication"],
          solution |-> "56"]

-----------------------------------------------------------------------------
(* The handler *)

\* a request: [method, path, headers, body]; the body of a request that has
\* none is NoBody

\* getClientIP
getClientIP(headers) ==
  IF HasHeader(headers, "x-forwarded-for") THEN trim(SplitFirst(headers["x-forwarded-for"]))
  ELSE IF HasHeader(headers, "x-real-ip") THEN headers["x-real-ip"]
  ELSE "127.0.0.1"

\* request.headers.get("user-agent") || ""
UserAgentOf(headers) == HeaderOrEmpty(headers, "user-agent")

\* the branch of the handler a request takes
Route(req) ==
  IF req.method = "OPTIONS" THEN "preflight"
  ELSE IF includes(req.path, "/analyze-ai") THEN "analyze-ai"
  ELSE IF includes(req.path, "/threat-intel") THEN "threat-intel"
  ELSE IF includes(req.path, "/advanced-challenge") THEN "advanced-challenge"
  ELSE IF includes(req.path, "/verify-challenge") /\ req.method = "POST" THEN "verify-challenge"
  ELSE "info"

\* ip.substring(0, 8) + "***"
MaskIP(ip) == SubSeq(ip, 1, IF Len(ip) < 8 THEN Len(ip) ELSE 8) \o "***"

\* JSON bodies: [kind |-> "invalid"] is text that is not JSON, [kind |-> "null"]
\* the JSON null, [kind |-> "object", fields |-> f] an object whose members
\* are the domain of f; a member is a string [t |-> "string", s |-> ..],
\* a number [t |-> "number", n |-> ..] or null [t |-> "null"]
Undefined == [def |-> FALSE, s |-> ""]

\* body.member, undefined when the object has no such member
Member(body, name) ==
  IF name \in DOMAIN body.fields THEN body.fields[name] ELSE [t |-> "undefined"]

\* value?.toString().toLowerCase().trim()
Normalized(value) ==
  CASE value.t = "string" -> [def |-> TRUE, s |-> trim(toLowerCase(value.s))]
    [] value.t = "number" -> [def |-> TRUE, s |-> trim(toLowerCase(ToString(value.n)))]
    [] OTHER              -> Undefined

\* isCorrect
IsCorrect(body) == Normalized(Member(body, "answer")) = Normalized(Member(body, "solution"))

\* request.json() rejects, or destructuring its result throws
BodyThrows(body) == body.kind \in {"invalid", "null"}

InternalError ==
  [status |-> 500,
   body   |-> [error |-> "Internal server error",
               message |-> "An unexpected error occurred",
               code |-> "INTERNAL_ERROR"]]

\* a variant that records the analysis whether or not it says AI
AnalyzeLedger_Always(db, ip, aiAnalysis, t) ==
  updateThreatIntelligence(db, ip, "ai-detected", aiAnalysis.confidence, t)

\* the ledger adjustment of /analyze-ai
AnalyzeLedger(db, ip, aiAnalysis, t) ==
  IF aiAnalysis.isAI
    THEN updateThreatIntelligence(db, ip, "ai-detected", aiAnalysis.confidence, t)
    ELSE db

\* a variant that charges a failed verification 0.2
VerifyLedger_Severity02(db, ip, isCorrect, t) ==
  IF isCorrect
    THEN ReduceThreat(db, ip)
    ELSE updateThreatIntelligence(db, ip, "failed-challenge", Lit0_2, t)

\* the ledger adjustment of /verify-challenge
VerifyLedger(db, ip, isCorrect, t) ==
  IF isCorrect
    THEN ReduceThreat(db, ip)
    ELSE updateThreatIntelligence(db, ip, "failed-challenge", Lit0_1, t)

-----------------------------------------------------------------------------
(* Bounds and the requests the environment sends *)

\* the most threat events the ledger is let hold, all records together
MaxThreats == 3
\* the most invocations suspended at the await at one time
MaxInFlight == 2

NoBody == [kind |-> "none"]

FullBrowser ==
  ("accept" :> "text/html,application/xhtml+xml") @@ ("accept-language" :> "en-US")
     @@ ("accept-encoding" :> "gzip, deflate")

NoHeaders == [h \in {} |-> ""]

\* the headers getClientIP reads
IpHeaders ==
  { NoHeaders,
    ("x-forwarded-for" :> " 0.0.0.0 , 10.0.0.1"),
    ("x-forwarded-for" :> "") @@ ("x-real-ip" :> "0.0.0.0") }

IPs == { "0.0.0.0", "127.0.0.1" }

UserAgents == { "Mozilla/5.0", "python-requests/2.28" }

Req(method, path, headers) ==
  [method |-> method, path |-> path, headers |-> headers]

AnalyzeRequests ==
  { Req("GET", "/api/analyze-ai", ("user-agent" :> ua) @@ b @@ i) :
      ua \in UserAgents, b \in {FullBrowser, NoHeaders}, i \in IpHeaders }

OtherRequests ==
  { Req("GET", "/api/threat-intel", i) : i \in IpHeaders }
  \cup { Req("POST", "/api/verify-challenge", i) : i \in IpHeaders }
  \cup { Req("GET", "/api/advanced-challenge", NoHeaders),
         Req("GET", "/api/verify-challenge", NoHeaders),
         Req("GET", "/api/", NoHeaders),
         Req("OPTIONS", "/api/verify-challenge", NoHeaders) }

RequestPool == AnalyzeRequests \cup OtherRequests

Str(s) == [t |-> "string", s |-> s]
Number(n) == [t |-> "number", n |-> n]
Object(f) == [kind |-> "object", fields |-> f]

\* the bodies request.json() resolves or rejects with
VerifyBodies ==
  { [kind |-> "invalid"],
    [kind |-> "null"],
    Object(NoHeaders),
    Object(("challengeId" :> Str("c-1")) @@ ("answer" :> Str(" Fire ")) @@ ("solution" :> Str("fire"))),
    Object(("challengeId" :> Str("c-1")) @@ ("answer" :> Number(56)) @@ ("solution" :> Str("56.0"))),
    Object(("answer" :> Str("fire"))),
    Object(("solution" :> Str("fire"))) }

UUIDs == { "uuid-1", "uuid-2" }

\* what the handler computes from each request of the pool, computed once
ClientIP == [req \in RequestPool |-> getClientIP(req.headers)]
RouteOf == [req \in RequestPool |-> Route(req)]
Analysis ==
  [req \in AnalyzeRequests |-> analyzeAISignatures(UserAgentOf(req.headers), req.headers)]
Correct == [body \in {b \in VerifyBodies : ~BodyThrows(b)} |-> IsCorrect(body)]

-----------------------------------------------------------------------------
(* The single-owner ledger the concurrency claim compares with *)

Clamp(x, lo, hi) == MathMax(lo, MathMin(x, hi))

SerialRecordThreat(db, ip, label, severity, t) ==
  LET old == IF ip \in DOMAIN db THEN db[ip]
             ELSE [ip |-> ip, riskScore |-> Zero, threats |-> << >>, lastSeen |-> 0]
  IN  [k \in DOMAIN db \cup {ip} |->
         IF k = ip
           THEN [ip |-> ip,
                 riskScore |-> Clamp(Add(old.riskScore, severity), Zero, Lit1_0),
                 threats |-> old.threats \o <<label>>,
                 lastSeen |-> t]
           ELSE db[k]]

SerialReduceRisk(db, ip, amount) ==
  [k \in DOMAIN db |->
     IF k = ip
       THEN [db[k] EXCEPT !.riskScore = Clamp(Sub(db[k].riskScore, amount), Zero, Lit1_0)]
       ELSE db[k]]

\* the history shape of an identity after one more operation on it
OtherRun == [fails |-> 0, phase |-> "other"]
RunAfterFail(r) == IF r.phase = "fails" THEN [r EXCEPT !.fails = r.fails + 1] ELSE OtherRun
RunAfterSuccess(r) == IF r.phase = "fails" THEN [r EXCEPT !.phase = "success"] ELSE OtherRun

RECURSIVE SumCounts(_, _)
SumCounts(db, keys) ==
  IF keys = {} THEN 0
  ELSE LET k == CHOOSE x \in keys : TRUE
       IN  Len(db[k].threats) + SumCounts(db, keys \ {k})

\* the number of threat events the ledger holds
TotalThreats(db) == SumCounts(db, DOMAIN db)

-----------------------------------------------------------------------------
(* State machine *)

NoResponse == [status |-> 0, body |-> [none |-> TRUE]]
NotServed == [route |-> "none", ip |-> "", body |-> NoBody]
NoProbe == [ip |-> ""]

Init ==
  /\ threatDatabase = initializeThreatIntelligence(DateNow)
  /\ pending = EmptyBag
  /\ response = NoResponse
  /\ served = NotServed
  /\ recorded = [ip \in IPs |-> 0]
  /\ serial = threatDatabase
  /\ run = [ip \in IPs |->
              IF ip \in DOMAIN threatDatabase
                THEN OtherRun ELSE [fails |-> 0, phase |-> "fails"]]
  /\ probe = NoProbe

\* the event loop is free to run a handler: the Response of the invocation
\* that ran last has been sent
Idle == response = NoResponse

Served(route, ip, body) ==
  served' = [route |-> route, ip |-> ip, body |-> body]

\* the runtime sends the Response the handler returned
Respond ==
  /\ ~Idle
  /\ response' = NoResponse
  /\ served' = NotServed
  /\ UNCHANGED <<threatDatabase, pending, recorded, serial, run, probe>>

\* OPTIONS: the preflight response
Preflight(req) ==
  /\ Idle
  /\ RouteOf[req] = "preflight"
  /\ response' = [status |-> 200, body |-> [empty |-> TRUE]]
  /\ Served("preflight", ClientIP[req], NoBody)
  /\ UNCHANGED <<threatDatabase, pending, recorded, serial, run, probe>>

\* /analyze-ai, for a request the classifier returns aiAnalysis for
AnalyzeAI(ip, aiAnalysis, cap) ==
  /\ Idle
  /\ aiAnalysis.isAI => TotalThreats(threatDatabase) < cap
  /\ threatDatabase' = AnalyzeLedger(threatDatabase, ip, aiAnalysis, DateNow)
  /\ response' = [status |-> 200,
                  body |-> [isAI |-> aiAnalysis.isAI,
                            confidence |-> aiAnalysis.confidence,
                            aiType |-> aiAnalysis.aiType,
                            reasoning |-> aiAnalysis.reasoning,
                            timestamp |-> DateNow,
                            ip |-> MaskIP(ip)]]
  /\ Served("analyze-ai", ip, NoBody)
  /\ IF aiAnalysis.isAI
       THEN /\ recorded' = [recorded EXCEPT ![ip] = recorded[ip] + 1]
            /\ serial' = SerialRecordThreat(serial, ip, "ai-detected", aiAnalysis.confidence, DateNow)
            /\ run' = [run EXCEPT ![ip] = OtherRun]
       ELSE UNCHANGED <<recorded, serial, run>>
  /\ UNCHANGED <<pending, probe>>

\* /threat-intel
ThreatIntel(req) ==
  /\ Idle
  /\ RouteOf[req] = "threat-intel"
  /\ LET ip == ClientIP[req]
         has == HasThreat(threatDatabase, ip)
     IN  /\ response' =
              [status |-> 200,
               body |-> [hasThreatData |-> has,
                         riskScore |-> IF has THEN threatDatabase[ip].riskScore ELSE Zero,
                         threatCount |-> IF has THEN Len(threatDatabase[ip].threats) ELSE 0,
                         lastSeen |-> IF has /\ threatDatabase[ip].lastSeen # 0
                                        THEN threatDatabase[ip].lastSeen ELSE "null"]]
         /\ Served("threat-intel", ip, NoBody)
  /\ UNCHANGED <<threatDatabase, pending, recorded, serial, run, probe>>

\* /advanced-challenge
AdvancedChallenge(req) ==
  /\ Idle
  /\ RouteOf[req] = "advanced-challenge"
  /\ \E typeIndex \in 1..Len(challengeTypes), uuid \in UUIDs :
       \E instanceIndex \in 1..InstanceCount(challengeTypes[typeIndex]) :
          LET challenge == generateAdvancedChallenge(typeIndex, instanceIndex) IN
          response' = [status |-> 200,
                       body |-> [challengeId |-> uuid,
                                 type |-> challenge.type,
                                 challenge |-> challenge.challenge,
                                 solution |-> challenge.solution,
                                 timestamp |-> DateNow]]
  /\ Served("advanced-challenge", ClientIP[req], NoBody)
  /\ UNCHANGED <<threatDatabase, pending, recorded, serial, run, probe>>

\* /verify-challenge up to "await request.json()": the invocation suspends
VerifyBegin(ip, maxInFlight) ==
  /\ Idle
  /\ BagCardinality(pending) < maxInFlight
  /\ pending' = pending (+) SetToBag({ip})
  /\ UNCHANGED <<threatDatabase, response, served, recorded, serial, run, probe>>

\* /verify-challenge from the await on: the body arrives and the rest of the
\* handler runs to its return
VerifyResume(ip, body, cap) ==
  /\ Idle
  /\ BagIn(ip, pending)
  /\ pending' = pending (-) SetToBag({ip})
  /\ Served("verify-challenge", ip, body)
  /\ IF BodyThrows(body)
       THEN /\ response' = InternalError
            /\ UNCHANGED <<threatDatabase, recorded, serial, run>>
       ELSE LET isCorrect == Correct[body] IN
            /\ ~isCorrect => TotalThreats(threatDatabase) < cap
            /\ threatDatabase' = VerifyLedger(threatDatabase, ip, isCorrect, DateNow)
            /\ response' = [status |-> 200,
                            body |-> [verified |-> isCorrect,
                                      challengeId |-> Member(body, "challengeId"),
                                      timestamp |-> DateNow]]
            /\ IF isCorrect
                 THEN /\ serial' = SerialReduceRisk(serial, ip, Lit0_2)
                      /\ run' = [run EXCEPT ![ip] = RunAfterSuccess(run[ip])]
                      /\ UNCHANGED recorded
                 ELSE /\ serial' = SerialRecordThreat(serial, ip, "failed-challenge", Lit0_1, DateNow)
                      /\ run' = [run EXCEPT ![ip] = RunAfterFail(run[ip])]
                      /\ recorded' = [recorded EXCEPT ![ip] = recorded[ip] + 1]
  /\ UNCHANGED probe

\* any other path: the API info response
Info(req) ==
  /\ Idle
  /\ RouteOf[req] = "info"
  /\ response' = [status |-> 200,
                  body |-> [service |-> "Enhanced Bot Protection API",
                            version |-> "2.0.0",
                            protection |-> [aiModels |-> Len(aiModels),
                                            threatDatabase |-> Cardinality(DOMAIN threatDatabase),
                                            challengeTypes |-> 5],
                            timestamp |-> DateNow]]
  /\ Served("info", ClientIP[req], NoBody)
  /\ UNCHANGED <<threatDatabase, pending, recorded, serial, run, probe>>

Next ==
  \/ Respond
  \/ \E req \in RequestPool : Preflight(req)
  \/ \E req \in AnalyzeRequests :
       RouteOf[req] = "analyze-ai" /\ AnalyzeAI(ClientIP[req], Analysis[req], MaxThreats)
  \/ \E req \in RequestPool : ThreatIntel(req)
  \/ \E req \in RequestPool : AdvancedChallenge(req)
  \/ \E req \in RequestPool :
       RouteOf[req] = "verify-challenge" /\ VerifyBegin(ClientIP[req], MaxInFlight)
  \/ \E ip \in IPs, body \in VerifyBodies : VerifyResume(ip, body, MaxThreats)
  \/ \E req \in RequestPool : Info(req)

Spec == Init /\ [][Next]_vars

-----------------------------------------------------------------------------
(* The classifier on its own: /analyze-ai over a wider pool of requests *)

ClassifyUserAgents ==
  { "", "Mozilla/5.0 (Windows NT 10.0; Win64; x64)", "python-requests/2.28",
    "requests (not python)", "My API Client", "ChatGPT-User/1.0",
    "Site Monitoring", "Selenium scraping research" }

SuspiciousSets ==
  { NoHeaders, ("x-bot" :> "1"), ("x-bot" :> ""), ("x-ai" :> "1") @@ ("x-research" :> "yes") }

AcceptSets ==
  { NoHeaders, ("accept" :> ""), ("accept" :> "text/html,application/xhtml+xml"),
    ("accept" :> "application/json"), ("accept" :> "*/*") }

ClassifyRequests ==
  { Req("GET", "/api/analyze-ai", ("user-agent" :> ua) @@ sus @@ acc @@ lang @@ enc) :
      ua \in ClassifyUserAgents, sus \in SuspiciousSets, acc \in AcceptSets,
      lang \in {NoHeaders, ("accept-language" :> "en-US")},
      enc \in {NoHeaders, ("accept-encoding" :> "gzip")} }
  \cup { Req("GET", "/api/analyze-ai", NoHeaders) }

ClassifyAnalysis ==
  [req \in ClassifyRequests |-> analyzeAISignatures(UserAgentOf(req.headers), req.headers)]

NextClassify ==
  \/ Respond
  \/ \E req \in ClassifyRequests :
       Route(req) = "analyze-ai"
         /\ AnalyzeAI(getClientIP(req.headers), ClassifyAnalysis[req], MaxThreats)

SpecClassify == Init /\ [][NextClassify]_vars

-----------------------------------------------------------------------------
(* Runs of verifications for the identity that starts without a record *)

\* the most failed verifications in a run
MaxFails == 12

FreshIP == "127.0.0.1"

NextVerify ==
  \/ Respond
  \/ VerifyBegin(FreshIP, MaxInFlight)
  \/ \E body \in VerifyBodies :
       VerifyResume(FreshIP, body, MaxFails + TotalThreats(initializeThreatIntelligence(DateNow)))

SpecVerify == Init /\ [][NextVerify]_vars

-----------------------------------------------------------------------------
(* Recording two events in both orders *)

\* the events the handler records: its label and its severity
RecordedEvents ==
  { [label |-> "failed-challenge", severity |-> Lit0_1] }
  \cup { [label |-> "ai-detected", severity |-> Analysis[req].confidence] :
           req \in {r \in AnalyzeRequests : Analysis[r].isAI} }

\* updateThreatIntelligence for e1 and then for e2
RecordBoth(db, ip, e1, e2) ==
  updateThreatIntelligence(
    updateThreatIntelligence(db, ip, e1.label, e1.severity, DateNow),
    ip, e2.label, e2.severity, DateNow)

ProbeOrder(ip, e1, e2) ==
  /\ Idle
  /\ probe = NoProbe
  /\ probe' = [ip |-> ip, e1 |-> e1, e2 |-> e2,
               start  |-> ExistingOrNew(threatDatabase, ip),
               first  |-> RecordBoth(threatDatabase, ip, e1, e2)[ip],
               second |-> RecordBoth(threatDatabase, ip, e2, e1)[ip]]
  /\ UNCHANGED <<threatDatabase, pending, response, served, recorded, serial, run>>

ClearProbe ==
  /\ probe # NoProbe
  /\ probe' = NoProbe
  /\ UNCHANGED <<threatDatabase, pending, response, served, recorded, serial, run>>

NextOrder ==
  \/ ClearProbe
  \/ \E ip \in IPs, e1 \in RecordedEvents, e2 \in RecordedEvents : ProbeOrder(ip, e1, e2)
  \/ probe = NoProbe /\ Respond
  \/ probe = NoProbe /\ \E req \in AnalyzeRequests :
       RouteOf[req] = "analyze-ai" /\ AnalyzeAI(ClientIP[req], Analysis[req], MaxThreats)
  \/ probe = NoProbe /\ \E ip \in IPs : VerifyBegin(ip, 1)
  \/ probe = NoProbe /\ \E ip \in IPs, body \in VerifyBodies : VerifyResume(ip, body, MaxThreats)

SpecOrder == Init /\ [][NextOrder]_vars

-----------------------------------------------------------------------------
(* Properties *)

\* the riskScore of an identity; an identity without a record has none to
\* lower, and /threat-intel reports 0 for it
RiskOf(db, ip) == IF ip \in DOMAIN db THEN db[ip].riskScore ELSE Zero

EventsOf(db, ip) == IF ip \in DOMAIN db THEN db[ip].threats ELSE << >>

\* |a - b| <= units * 2^-56, for numbers that are not negative
Within(a, b, units) == ~MagLess(<<0, 0, units>>, Sub(a, b).mag)

\* the identities initializeThreatIntelligence gives a record at process start
SeededIPs == DOMAIN initializeThreatIntelligence(DateNow)

\* the invocation that has just returned
JustServed(route) == ~Idle /\ served.route = route
\* this step is an invocation running to its return
Serves(route) == Idle /\ served'.route = route

\* C1: in every reachable state every record of the ledger has a riskScore
\* in [0,1]: no recording leaves it above 1, no reduction below 0.
C1_RiskScoreInRange ==
  \A ip \in DOMAIN threatDatabase :
     /\ ~Less(threatDatabase[ip].riskScore, Zero)
     /\ ~Less(Lit1_0, threatDatabase[ip].riskScore)

\* a recording has been capped at 1 (the seeded record, at 1.0, got a second
\* event) and a reduction has been stopped at 0 (one failure, 0.1, then a success)
C1_Witness ==
  /\ "0.0.0.0" \in DOMAIN threatDatabase
  /\ Len(threatDatabase["0.0.0.0"].threats) = 2
  /\ threatDatabase["0.0.0.0"].riskScore = Lit1_0
  /\ run[FreshIP] = [fails |-> 1, phase |-> "success"]
  /\ threatDatabase[FreshIP].riskScore = Zero

\* C2: /analyze-ai for identity i touches the ledger exactly when the
\* classification is automated: then it appends one "ai-detected" event to the
\* record of i, created with riskScore 0 when absent, and sets riskScore to
\* min(old riskScore + reported confidence, 1); otherwise the ledger is unchanged.
C2_AnalyzeTouchesLedger ==
  [][ Serves("analyze-ai") =>
        LET ip == served'.ip
            result == response'.body
        IN  IF result.isAI
              THEN /\ DOMAIN threatDatabase' = DOMAIN threatDatabase \cup {ip}
                   /\ \A k \in DOMAIN threatDatabase \ {ip} :
                         threatDatabase'[k] = threatDatabase[k]
                   /\ threatDatabase'[ip].threats
                         = EventsOf(threatDatabase, ip) \o <<"ai-detected">>
                   /\ threatDatabase'[ip].riskScore
                         = MathMin(Add(RiskOf(threatDatabase, ip), result.confidence), Lit1_0)
              ELSE threatDatabase' = threatDatabase ]_vars

\* an automated request of an identity without a record has created the record
C2_Witness ==
  /\ JustServed("analyze-ai")
  /\ response.body.isAI
  /\ served.ip = FreshIP
  /\ threatDatabase[FreshIP].threats = <<"ai-detected">>
  /\ threatDatabase[FreshIP].riskScore = Lit0_6

\* the double nearest k/10
Tenth(k) ==
  IF k = 0 THEN Zero
  ELSE << Lit0_1, Lit0_2, Lit0_3, Lit0_4, Lit0_5, Lit0_6, Lit0_7, Lit0_8, Lit0_9, Lit1_0 >>[k]

AtMost10(n) == IF n < 10 THEN n ELSE 10

AllFailed(n) == [i \in 1..n |-> "failed-challenge"]

\* 0.1 added n times, capped at 1 after each addition
RECURSIVE RunningSum(_)
RunningSum(n) ==
  IF n = 0 THEN Zero
  ELSE LET before == RunningSum(n - 1) IN
       IF before.sign = 1 THEN MathMin(Add(before, Lit0_1), Lit1_0) ELSE before

\* C3 as claimed: after n failed verifications of an identity that had no
\* record the riskScore is min(n * 0.1, 1) and the events are n
\* "failed-challenge"; a success that follows gives max(0, that - 0.2).
C3_Claimed ==
  \A ip \in IPs :
     LET n == run[ip].fails IN
     /\ (run[ip].phase = "fails" /\ n > 0) =>
           /\ threatDatabase[ip].riskScore = Tenth(AtMost10(n))
           /\ threatDatabase[ip].threats = AllFailed(n)
     /\ (run[ip].phase = "success" /\ n > 0) =>
           /\ threatDatabase[ip].riskScore = MathMax(Zero, Sub(Tenth(AtMost10(n)), Lit0_2))
           /\ threatDatabase[ip].threats = AllFailed(n)

\* C3 amended: after n failed verifications of an identity that had no record
\* the riskScore is the double-precision running sum of n additions of 0.1,
\* capped at 1, which is within 2^-53 of min(n * 0.1, 1), and the events are n
\* "failed-challenge"; a success that follows gives max(0, that - 0.2);
\* 5 failures give exactly 0.5 and a success after them exactly 0.3.
C3_FailRun ==
  \A ip \in IPs :
     LET n == run[ip].fails IN
     /\ (run[ip].phase \in {"fails", "success"} /\ n = 0) => ip \notin DOMAIN threatDatabase
     /\ (run[ip].phase = "fails" /\ n > 0) =>
           /\ threatDatabase[ip].riskScore = RunningSum(n)
           /\ Within(threatDatabase[ip].riskScore, Tenth(AtMost10(n)), 8)
           /\ n = 5 => threatDatabase[ip].riskScore = Lit0_5
           /\ threatDatabase[ip].threats = AllFailed(n)
     /\ (run[ip].phase = "success" /\ n > 0) =>
           /\ threatDatabase[ip].riskScore = MathMax(Zero, Sub(RunningSum(n), Lit0_2))
           /\ n = 5 => threatDatabase[ip].riskScore = Lit0_3
           /\ threatDatabase[ip].threats = AllFailed(n)

\* five failures and then a success have left 0.3
C3_Witness ==
  /\ run[FreshIP] = [fails |-> 5, phase |-> "success"]
  /\ JustServed("verify-challenge")
  /\ threatDatabase[FreshIP].riskScore = Lit0_3

AbsentMember(body, name) == name \notin DOMAIN body.fields

\* C4: a /verify-challenge request whose answer, solution or both are absent
\* is answered with verified = false, without an error.
C4_MalformedNotVerified ==
  ( /\ JustServed("verify-challenge")
    /\ served.body.kind = "object"
    /\ AbsentMember(served.body, "answer") \/ AbsentMember(served.body, "solution") )
  => /\ response.status = 200
     /\ response.body.verified = FALSE

\* C5 as claimed: an identity has a record only if an updateThreatIntelligence
\* call has been made for it.
C5_Claimed ==
  \A ip \in DOMAIN threatDatabase : recorded[ip] > 0

\* C5 amended: an identity other than the known threat "0.0.0.0", which
\* initializeThreatIntelligence gives a record at process start, has a record
\* only if an updateThreatIntelligence call (an automated /analyze-ai or a
\* failed /verify-challenge) has been made for it, and /threat-intel reports
\* hasThreatData = false for every such identity without one.
C5_LazyRecords ==
  /\ \A ip \in DOMAIN threatDatabase : recorded[ip] > 0 \/ ip \in SeededIPs
  /\ SeededIPs \subseteq DOMAIN threatDatabase
  /\ ( /\ JustServed("threat-intel")
       /\ recorded[served.ip] = 0
       /\ served.ip \notin SeededIPs )
     => response.body.hasThreatData = FALSE

\* /threat-intel reports no data for an identity that has only had a
\* successful verification
C5_Witness ==
  /\ JustServed("threat-intel")
  /\ served.ip = FreshIP
  /\ run[FreshIP] = [fails |-> 0, phase |-> "success"]
  /\ response.body.hasThreatData = FALSE

\* C6: a successful /verify-challenge for identity i changes nothing in the
\* ledger but the riskScore of the record of i: no event is appended, no other
\* record changes, and without a record of i the ledger is unchanged.
C6_SuccessFrame ==
  [][ ( /\ Serves("verify-challenge")
        /\ response'.status = 200
        /\ response'.body.verified )
      => LET ip == served'.ip IN
         /\ DOMAIN threatDatabase' = DOMAIN threatDatabase
         /\ \A k \in DOMAIN threatDatabase \ {ip} : threatDatabase'[k] = threatDatabase[k]
         /\ ip \in DOMAIN threatDatabase =>
              threatDatabase'[ip] =
                [threatDatabase[ip] EXCEPT !.riskScore = threatDatabase'[ip].riskScore] ]_vars

\* a successful verification has lowered the known threat from 1.0 to 0.8
C6_Witness ==
  /\ JustServed("verify-challenge")
  /\ response.status = 200
  /\ response.body.verified
  /\ served.ip = "0.0.0.0"
  /\ threatDatabase["0.0.0.0"].riskScore = Lit0_8
  /\ threatDatabase["0.0.0.0"].threats = <<"known-bot-network">>

\* C7: with invocations for the same identity suspended at the await and
\* resumed in any order, the ledger is what applying their ledger adjustments
\* one at a time, in the order they resume, gives, and no update is lost: the
\* event count of an identity has grown by the number of updates made for it.
C7_SerialEquivalent ==
  /\ threatDatabase = serial
  /\ \A ip \in IPs :
        Len(EventsOf(threatDatabase, ip))
          = Len(EventsOf(initializeThreatIntelligence(DateNow), ip)) + recorded[ip]

\* two failed verifications of one identity were in flight together: the
\* second has just been recorded while a third invocation is still suspended
C7_Witness ==
  /\ JustServed("verify-challenge")
  /\ served.ip = FreshIP
  /\ recorded[FreshIP] = 2
  /\ threatDatabase[FreshIP].threats = AllFailed(2)
  /\ BagIn(FreshIP, pending)

\* C8: the classifier reports a confidence in [0,1], and isAI exactly when
\* the reported confidence is greater than 0.5.
C8_ConfidenceAndThreshold ==
  JustServed("analyze-ai") =>
     /\ ~Less(response.body.confidence, Zero)
     /\ ~Less(Lit1_0, response.body.confidence)
     /\ response.body.isAI <=> Greater(response.body.confidence, Lit0_5)

\* a request that scores exactly 0.5 is not classified as AI
C8_Witness ==
  /\ JustServed("analyze-ai")
  /\ response.body.confidence = Lit0_5
  /\ ~response.body.isAI

\* C9: the riskScore of an identity is lowered only by a successful
\* /verify-challenge for that identity.
C9_MonotoneExceptSuccess ==
  [][ \A ip \in IPs :
        Less(RiskOf(threatDatabase', ip), RiskOf(threatDatabase, ip))
          => /\ Serves("verify-challenge")
             /\ served'.ip = ip
             /\ response'.status = 200
             /\ response'.body.verified ]_vars

\* a failed verification has raised one identity while the other, lowered
\* before by a success, keeps its score
C9_Witness ==
  /\ JustServed("verify-challenge")
  /\ served.ip = FreshIP
  /\ response.status = 200
  /\ ~response.body.verified
  /\ threatDatabase[FreshIP].riskScore = Lit0_2
  /\ threatDatabase["0.0.0.0"].riskScore = Lit0_8

ProbeEvents ==
  /\ probe.first.threats = probe.start.threats \o <<probe.e1.label, probe.e2.label>>
  /\ probe.second.threats = probe.start.threats \o <<probe.e2.label, probe.e1.label>>

\* C10 as claimed: recording E1 then E2 leaves the same riskScore as E2 then
\* E1, and the event list keeps the labels in the order applied.
C10_Claimed ==
  probe # NoProbe =>
     /\ probe.first.riskScore = probe.second.riskScore
     /\ ProbeEvents

\* C10 amended: recording E1 then E2 leaves a riskScore within 2^-52 of the
\* one E2 then E1 leaves (double addition rounds, so the two can differ in the
\* last place), and the event list keeps the labels in the order applied.
C10_OrderUpToRounding ==
  probe # NoProbe =>
     /\ Within(probe.first.riskScore, probe.second.riskScore, 16)
     /\ ProbeEvents

\* the two orders have left scores that differ in the last place
C10_Witness ==
  /\ probe # NoProbe
  /\ probe.e1.label # probe.e2.label
  /\ probe.first.riskScore # probe.second.riskScore
  /\ probe.first.threats # probe.second.threats

====
